---- MODULE Spec2Model ----
(***************************************************************************)
(* A model of the mafs 3D math library: Vec3<T>, Point3<T> (basic_types.rs) *)
(* and Matrix4<T> with its transforms (matrix.rs).                          *)
(*                                                                          *)
(* The scalar T is the library's f64 instantiation (Vec3d, Point3d, Mat4d). *)
(* A finite scalar is held as an integer number of units of 1/Scale, and    *)
(* every multiplication, division and square root rounds its exact result   *)
(* to the nearest unit (ties to even), as IEEE-754 arithmetic rounds to the *)
(* nearest representable value.  Addition and subtraction of units are      *)
(* exact.  A division by zero yields a non-finite value (Inf, NegInf, NaN). *)
(* The inputs are finite scalars, and no result overflows.                  *)
(*                                                                          *)
(* The library has no shared state: each component is a specification of    *)
(* its own over the values a caller holds.  SpecMatrix is the matrix        *)
(* algebra, SpecTuple the vector and point algebra, SpecTransform the       *)
(* transforms of points and vectors by a matrix, and SpecIndex the indexed  *)
(* accesses.                                                                *)
(***************************************************************************)
EXTENDS Integers, FiniteSets, Sequences, TLC

(***************************************************************************)
(* Bounds of the model.                                                     *)
(***************************************************************************)
\* Units per 1.0: the precision of the modelled scalar.
Scale == 4
\* Number of generated (non-symmetric, fractional) matrices in the input pool.
NumGen == 2
\* In-place transpose() calls made on the receiver in one behaviour.
MaxTranspose == 2
\* Indexed writes (IndexMut) made in one behaviour.
MaxWrites == 1
\* Indices tried by the indexed accesses: 0..MaxIndex.
MaxIndex == 5

(***************************************************************************)
(* Scalar arithmetic (the trait bounds Add, Sub, Mul, Div, Sqrt, PartialOrd *)
(* of T, as f64 provides them).                                             *)
(***************************************************************************)
Inf == "inf"
NegInf == "-inf"
NaN == "NaN"

\* n / d for d > 0, rounded to the nearest integer, ties to even.
RoundDiv(n, d) ==
    LET q == n \div d
        r == n % d
    IN  IF 2 * r < d THEN q
        ELSE IF 2 * r > d THEN q + 1
        ELSE IF q % 2 = 0 THEN q ELSE q + 1

\* T::mul on finite scalars.
SMul(x, y) == RoundDiv(x * y, Scale)

\* T::div: x / y.  A zero divisor gives an infinity or NaN and never panics.
SDiv(x, y) ==
    IF y > 0 THEN RoundDiv(x * Scale, y)
    ELSE IF y < 0 THEN RoundDiv((0 - x) * Scale, 0 - y)
    ELSE IF x > 0 THEN Inf
    ELSE IF x < 0 THEN NegInf
    ELSE NaN

\* Sqrt::sqrt of a finite scalar x >= 0, correctly rounded.
SSqrt(x) ==
    LET t == x * Scale
        s == CHOOSE r \in 0..(t + 1) : r * r <= t /\ (r + 1) * (r + 1) > t
    IN  IF t - s * s > s THEN s + 1 ELSE s

\* The literals 0.0.into() and 1.0.into().
Zero == 0 * Scale
One == 1 * Scale

(***************************************************************************)
(* Vec3<T> and Point3<T>: struct { x, y, z }.                               *)
(***************************************************************************)
Vec3_new(x, y, z) == [x |-> x, y |-> y, z |-> z]
Vec3_zeros == [x |-> Zero, y |-> Zero, z |-> Zero]
Point3_new(x, y, z) == [x |-> x, y |-> y, z |-> z]
Point3_zeros == [x |-> Zero, y |-> Zero, z |-> Zero]

\* The result of a call: it returned val, or it panicked.
Ok(val) == [outcome |-> "ok", val |-> val]
Panic == [outcome |-> "panic"]

\* Vec3's index with an out-of-range index wrapped to a component.
Vec3_index_wrap(self, index) ==
    CASE index % 3 = 0 -> Ok(self.x)
      [] index % 3 = 1 -> Ok(self.y)
      [] OTHER -> Ok(self.z)

\* impl Index<usize> for Vec3<T>
Vec3_index(self, index) ==
    CASE index = 0 -> Ok(self.x)
      [] index = 1 -> Ok(self.y)
      [] index = 2 -> Ok(self.z)
      [] OTHER -> Panic

\* impl IndexMut<usize> for Vec3<T>, followed by the store of value.
Vec3_index_mut(self, index, value) ==
    CASE index = 0 -> Ok([self EXCEPT !.x = value])
      [] index = 1 -> Ok([self EXCEPT !.y = value])
      [] index = 2 -> Ok([self EXCEPT !.z = value])
      [] OTHER -> Panic

\* impl Index<usize> for Point3<T>
Point3_index(self, index) ==
    CASE index = 0 -> Ok(self.x)
      [] index = 1 -> Ok(self.y)
      [] index = 2 -> Ok(self.z)
      [] OTHER -> Panic

\* impl IndexMut<usize> for Point3<T>, followed by the store of value.
Point3_index_mut(self, index, value) ==
    CASE index = 0 -> Ok([self EXCEPT !.x = value])
      [] index = 1 -> Ok([self EXCEPT !.y = value])
      [] index = 2 -> Ok([self EXCEPT !.z = value])
      [] OTHER -> Panic

\* cross with a sign slip in the first component.
cross_slip(self, other) ==
    Vec3_new(SMul(self.y, other.z) + SMul(self.z, other.y),
             SMul(self.z, other.x) - SMul(self.x, other.z),
             SMul(self.x, other.y) - SMul(self.y, other.x))

\* Vector::cross
cross(self, other) ==
    Vec3_new(SMul(self.y, other.z) - SMul(self.z, other.y),
             SMul(self.z, other.x) - SMul(self.x, other.z),
             SMul(self.x, other.y) - SMul(self.y, other.x))

\* impl Mul for Vec3<T>: the * operator.
Vec3_mul(self, rhs) == cross(self, rhs)

\* Vector::magnitude
magnitude(self) ==
    LET value == SMul(self.x, self.x) + SMul(self.y, self.y) + SMul(self.z, self.z)
    IN  SSqrt(value)

\* Point::distance_from_origin
distance_from_origin(self) ==
    LET value == SMul(self.x, self.x) + SMul(self.y, self.y) + SMul(self.z, self.z)
    IN  SSqrt(value)

\* normalize with its zero guard replaced by a divisor of len plus the smallest
\* scalar: every call divides.
Vec3_normalize_unguarded(self) ==
    LET len == magnitude(self)
        inv_len == SDiv(One, len + 1)
    IN  [self |-> [x |-> SMul(self.x, inv_len),
                   y |-> SMul(self.y, inv_len),
                   z |-> SMul(self.z, inv_len)],
         divs |-> 1]

\* Tuple::normalize for Vec3<T>: the receiver afterwards, and the divisions made.
Vec3_normalize(self) ==
    LET len == magnitude(self)
    IN  IF len > Zero
        THEN LET inv_len == SDiv(One, len)
             IN  [self |-> [x |-> SMul(self.x, inv_len),
                            y |-> SMul(self.y, inv_len),
                            z |-> SMul(self.z, inv_len)],
                  divs |-> 1]
        ELSE [self |-> self, divs |-> 0]

\* Tuple::normalize for Point3<T>: the receiver afterwards, and the divisions made.
Point3_normalize(self) ==
    LET len == distance_from_origin(self)
    IN  IF len > Zero
        THEN LET inv_len == SDiv(One, len)
             IN  [self |-> [x |-> SMul(self.x, inv_len),
                            y |-> SMul(self.y, inv_len),
                            z |-> SMul(self.z, inv_len)],
                  divs |-> 1]
        ELSE [self |-> self, divs |-> 0]

(***************************************************************************)
(* Matrix4<T>: struct { m: [[T; 4]; 4] }, rows and columns indexed 0..3.    *)
(***************************************************************************)
\* The length of [T; 4].
N == 4

Row4(a, b, c, d) == (0 :> a) @@ (1 :> b) @@ (2 :> c) @@ (3 :> d)

\* Matrix4::new, row-major.
Matrix4_new(a, b, c, d, e, f, g, h, i, j, k, l, m, n, o, p) ==
    Row4(Row4(a, b, c, d), Row4(e, f, g, h), Row4(i, j, k, l), Row4(m, n, o, p))

\* Matrix4::zeros (Default::default()).
Matrix4_zeros ==
    Matrix4_new(Zero, Zero, Zero, Zero, Zero, Zero, Zero, Zero,
                Zero, Zero, Zero, Zero, Zero, Zero, Zero, Zero)

\* Indexing the array [_; 4]: bounds-checked, out of range panics.
Array_index(arr, index) == IF index < N THEN Ok(arr[index]) ELSE Panic

\* impl Index<usize> for Matrix4<T>: &self.m[index].
Matrix4_index(self, index) == Array_index(self, index)

\* m[row][col]: Matrix4's index, then the row array's.
Matrix4_get(self, row, col) ==
    LET r == Matrix4_index(self, row)
    IN  IF r.outcome = "panic" THEN Panic ELSE Array_index(r.val, col)

\* m[row][col] = value: Matrix4's index_mut, then the row array's, then the store.
Matrix4_set(self, row, col, value) ==
    LET r == Matrix4_index(self, row)
    IN  IF r.outcome = "panic" THEN Panic
        ELSE IF Array_index(r.val, col).outcome = "panic" THEN Panic
        ELSE Ok([self EXCEPT ![row][col] = value])

\* transposed with a slip in one argument: entry [3][2] reads self[3][2] for self[2][3].
transposed_slip(self) ==
    Matrix4_new(
        self[0][0], self[1][0], self[2][0], self[3][0], self[0][1], self[1][1], self[2][1],
        self[3][1], self[0][2], self[1][2], self[2][2], self[3][2], self[0][3], self[1][3],
        self[3][2], self[3][3])

\* Matrix4::transposed
transposed(self) ==
    Matrix4_new(
        self[0][0], self[1][0], self[2][0], self[3][0], self[0][1], self[1][1], self[2][1],
        self[3][1], self[0][2], self[1][2], self[2][2], self[3][2], self[0][3], self[1][3],
        self[2][3], self[3][3])

\* transpose with a slip in one argument: entry [0][1] reads self[0][1] for self[1][0].
transpose_slip(self) ==
    Matrix4_new(
        self[0][0], self[0][1], self[2][0], self[3][0], self[0][1], self[1][1], self[2][1],
        self[3][1], self[0][2], self[1][2], self[2][2], self[3][2], self[0][3], self[1][3],
        self[2][3], self[3][3])

\* Matrix4::transpose: the receiver afterwards (*self = tmp).
transpose(self) ==
    LET tmp == Matrix4_new(
            self[0][0], self[1][0], self[2][0], self[3][0], self[0][1], self[1][1], self[2][1],
            self[3][1], self[0][2], self[1][2], self[2][2], self[3][2], self[0][3], self[1][3],
            self[2][3], self[3][3])
    IN  tmp

\* Matrix4::inverse: todo!("Work in progress") panics on every receiver.
inverse(self) == Panic

\* The sum over k in 0..n of lhs[i][k] * rhs[k][j].
RECURSIVE SumK(_, _, _, _, _)
SumK(lhs, rhs, i, j, n) ==
    IF n < 0 THEN 0 ELSE SumK(lhs, rhs, i, j, n - 1) + SMul(lhs[i][n], rhs[n][j])

\* multiply with a slip in one unrolled line: result[0][1] reads b1[0] for b1[1].
multiply_slip(lhs, rhs) ==
    [i \in 0..3 |-> [j \in 0..3 |->
        IF i = 0 /\ j = 1
        THEN SMul(lhs[0][0], rhs[0][1]) + SMul(lhs[0][1], rhs[1][0])
             + SMul(lhs[0][2], rhs[2][1]) + SMul(lhs[0][3], rhs[3][1])
        ELSE SumK(lhs, rhs, i, j, 3)]]

\* multiply(lhs, rhs)
multiply(lhs, rhs) ==
    LET b0 == rhs[0]
        b1 == rhs[1]
        b2 == rhs[2]
        b3 == rhs[3]
        a0_ == lhs[0]
        a1_ == lhs[1]
        a2_ == lhs[2]
        a3_ == lhs[3]
    IN  Matrix4_new(
        SMul(a0_[0], b0[0]) + SMul(a0_[1], b1[0]) + SMul(a0_[2], b2[0]) + SMul(a0_[3], b3[0]),
        SMul(a0_[0], b0[1]) + SMul(a0_[1], b1[1]) + SMul(a0_[2], b2[1]) + SMul(a0_[3], b3[1]),
        SMul(a0_[0], b0[2]) + SMul(a0_[1], b1[2]) + SMul(a0_[2], b2[2]) + SMul(a0_[3], b3[2]),
        SMul(a0_[0], b0[3]) + SMul(a0_[1], b1[3]) + SMul(a0_[2], b2[3]) + SMul(a0_[3], b3[3]),

        SMul(a1_[0], b0[0]) + SMul(a1_[1], b1[0]) + SMul(a1_[2], b2[0]) + SMul(a1_[3], b3[0]),
        SMul(a1_[0], b0[1]) + SMul(a1_[1], b1[1]) + SMul(a1_[2], b2[1]) + SMul(a1_[3], b3[1]),
        SMul(a1_[0], b0[2]) + SMul(a1_[1], b1[2]) + SMul(a1_[2], b2[2]) + SMul(a1_[3], b3[2]),
        SMul(a1_[0], b0[3]) + SMul(a1_[1], b1[3]) + SMul(a1_[2], b2[3]) + SMul(a1_[3], b3[3]),

        SMul(a2_[0], b0[0]) + SMul(a2_[1], b1[0]) + SMul(a2_[2], b2[0]) + SMul(a2_[3], b3[0]),
        SMul(a2_[0], b0[1]) + SMul(a2_[1], b1[1]) + SMul(a2_[2], b2[1]) + SMul(a2_[3], b3[1]),
        SMul(a2_[0], b0[2]) + SMul(a2_[1], b1[2]) + SMul(a2_[2], b2[2]) + SMul(a2_[3], b3[2]),
        SMul(a2_[0], b0[3]) + SMul(a2_[1], b1[3]) + SMul(a2_[2], b2[3]) + SMul(a2_[3], b3[3]),

        SMul(a3_[0], b0[0]) + SMul(a3_[1], b1[0]) + SMul(a3_[2], b2[0]) + SMul(a3_[3], b3[0]),
        SMul(a3_[0], b0[1]) + SMul(a3_[1], b1[1]) + SMul(a3_[2], b2[1]) + SMul(a3_[3], b3[1]),
        SMul(a3_[0], b0[2]) + SMul(a3_[1], b1[2]) + SMul(a3_[2], b2[2]) + SMul(a3_[3], b3[2]),
        SMul(a3_[0], b0[3]) + SMul(a3_[1], b1[3]) + SMul(a3_[2], b2[3]) + SMul(a3_[3], b3[3]))

\* impl Mul for Matrix4<T>: the * operator.
Matrix4_mul(self, rhs) == multiply(self, rhs)

\* mul_point_matrix with an index slip: x adds m[3][3] for m[3][0].
mul_point_matrix_slip(p, m) ==
    LET x == SMul(p.x, m[0][0]) + SMul(p.y, m[1][0]) + SMul(p.z, m[2][0]) + m[3][3]
        y == SMul(p.x, m[0][1]) + SMul(p.y, m[1][1]) + SMul(p.z, m[2][1]) + m[3][1]
        z == SMul(p.x, m[0][2]) + SMul(p.y, m[1][2]) + SMul(p.z, m[2][2]) + m[3][2]
        w == SMul(p.x, m[0][3]) + SMul(p.y, m[1][3]) + SMul(p.z, m[2][3]) + m[3][3]
    IN  [val |-> Point3_new(SDiv(x, w), SDiv(y, w), SDiv(z, w)), divs |-> 3]

\* mul_point_matrix(p, m): the returned point, and the divisions made.
mul_point_matrix(p, m) ==
    LET x == SMul(p.x, m[0][0]) + SMul(p.y, m[1][0]) + SMul(p.z, m[2][0]) + m[3][0]
        y == SMul(p.x, m[0][1]) + SMul(p.y, m[1][1]) + SMul(p.z, m[2][1]) + m[3][1]
        z == SMul(p.x, m[0][2]) + SMul(p.y, m[1][2]) + SMul(p.z, m[2][2]) + m[3][2]
        w == SMul(p.x, m[0][3]) + SMul(p.y, m[1][3]) + SMul(p.z, m[2][3]) + m[3][3]
    IN  [val |-> Point3_new(SDiv(x, w), SDiv(y, w), SDiv(z, w)), divs |-> 3]

\* mul_vec_matrix that adds the translation row, as mul_point_matrix does.
mul_vec_matrix_translated(v, m) ==
    LET x == SMul(v.x, m[0][0]) + SMul(v.y, m[1][0]) + SMul(v.z, m[2][0]) + m[3][0]
        y == SMul(v.x, m[0][1]) + SMul(v.y, m[1][1]) + SMul(v.z, m[2][1]) + m[3][1]
        z == SMul(v.x, m[0][2]) + SMul(v.y, m[1][2]) + SMul(v.z, m[2][2]) + m[3][2]
    IN  [val |-> Vec3_new(x, y, z), divs |-> 0]

\* mul_vec_matrix(v, m): the returned vector, and the divisions made.
mul_vec_matrix(v, m) ==
    LET x == SMul(v.x, m[0][0]) + SMul(v.y, m[1][0]) + SMul(v.z, m[2][0])
        y == SMul(v.x, m[0][1]) + SMul(v.y, m[1][1]) + SMul(v.z, m[2][1])
        z == SMul(v.x, m[0][2]) + SMul(v.y, m[1][2]) + SMul(v.z, m[2][2])
    IN  [val |-> Vec3_new(x, y, z), divs |-> 0]

(***************************************************************************)
(* Inputs: the matrices, vectors and points the callers construct.          *)
(***************************************************************************)
\* The integer n as a scalar.
F(n) == n * Scale

Identity ==
    Matrix4_new(One, Zero, Zero, Zero, Zero, One, Zero, Zero,
                Zero, Zero, One, Zero, Zero, Zero, Zero, One)

\* m1 and m2 of tests::multiply_matrieces, and the product the test expects.
TestM1 ==
    Matrix4_new(F(5), F(7), F(9), F(10), F(2), F(3), F(3), F(8),
                F(8), F(10), F(2), F(3), F(3), F(3), F(4), F(8))
TestM2 ==
    Matrix4_new(F(3), F(10), F(12), F(18), F(12), F(1), F(4), F(9),
                F(9), F(10), F(12), F(2), F(3), F(12), F(4), F(10))
TestProduct ==
    Matrix4_new(F(210), F(267), F(236), F(271), F(93), F(149), F(104), F(149),
                F(171), F(146), F(172), F(268), F(105), F(169), F(128), F(169))
\* What tests::transpose_test expects of m1 after transpose().
TestM1Transposed ==
    Matrix4_new(F(5), F(2), F(8), F(3), F(7), F(3), F(10), F(3),
                F(9), F(3), F(2), F(4), F(10), F(8), F(3), F(8))
\* A singular matrix: rows 0 and 1 are identical.
TwoRows ==
    Matrix4_new(F(1), F(2), F(3), F(4), F(1), F(2), F(3), F(4),
                F(0), F(1), F(0), F(0), F(0), F(0), F(1), F(0))

\* Generated matrices with entries of -10..10 units: neither symmetric nor integral.
Gen(s) ==
    [i \in 0..3 |-> [j \in 0..3 |->
        ((s * (7 * i + 3) + j * (5 * s + 2) + 11 * i * j) % 21) - 10]]

Mats == {Matrix4_zeros, Identity, TestM1, TestM2, TwoRows} \cup {Gen(s) : s \in 1..NumGen}

VARIABLES
    a, b, c,     \* Matrix4 values held by the caller
    a0,          \* a as it was constructed or last stored into
    nT,          \* transpose() calls made on a since
    v, u,        \* Vec3 values held by the caller
    p,           \* a Point3 value held by the caller
    writes,      \* indexed stores made
    op,          \* the last call made
    expr,        \* the operands of the last call
    args,        \* the indices, then the value stored, of the last indexed access
    outcome,     \* "ok" when the last call returned, "panic" when it panicked
    retM,        \* the Matrix4 the last call returned
    retT,        \* the Vec3 or Point3 the last call returned
    retS,        \* the scalar the last call returned
    divs         \* divisions the last call performed

vars == <<a, b, c, a0, nT, v, u, p, writes, op, expr, args, outcome, retM, retT, retS, divs>>

matrices == <<a, b, c, a0, nT>>
tuples == <<v, u, p>>

TypeOK ==
    /\ nT \in 0..MaxTranspose
    /\ writes \in 0..MaxWrites
    /\ outcome \in {"none", "ok", "panic"}

\* No call has been made yet.
NoCall ==
    /\ op = "none"
    /\ expr = <<>>
    /\ args = <<>>
    /\ outcome = "none"
    /\ retM = Matrix4_zeros
    /\ retT = Vec3_zeros
    /\ retS = Zero
    /\ divs = 0
    /\ nT = 0
    /\ writes = 0

\* A panic unwinds the caller: no call follows it.
Alive == outcome # "panic"

\* The call name with operands e and integer arguments i ended with outcome o.
Called(name, e, i, o) ==
    /\ op' = name
    /\ expr' = e
    /\ args' = i
    /\ outcome' = o

Reg(r) == CASE r = "a" -> a [] r = "b" -> b [] OTHER -> c

(***************************************************************************)
(* The matrix algebra: multiply, *, transpose, transposed, inverse.         *)
(***************************************************************************)
InitMatrix ==
    /\ a \in Mats
    /\ b \in Mats
    /\ c \in Mats
    /\ a0 = a
    /\ v = Vec3_zeros
    /\ u = Vec3_zeros
    /\ p = Point3_zeros
    /\ NoCall

\* multiply(&l, &r)
Multiply(l, r) ==
    /\ Alive
    /\ retM' = multiply(Reg(l), Reg(r))
    /\ Called("multiply", <<l, r>>, <<>>, "ok")
    /\ retT' = Vec3_zeros /\ retS' = Zero /\ divs' = 0
    /\ UNCHANGED <<matrices, tuples, writes>>

\* multiply(&multiply(&l, &r), &x): the last product is the left operand.
MultiplyLeft(x) ==
    /\ Alive
    /\ op = "multiply" /\ expr = <<"a", "b">>
    /\ retM' = multiply(retM, Reg(x))
    /\ Called("multiply", <<"(", expr[1], expr[2], ")", x>>, <<>>, "ok")
    /\ retT' = Vec3_zeros /\ retS' = Zero /\ divs' = 0
    /\ UNCHANGED <<matrices, tuples, writes>>

\* multiply(&x, &multiply(&l, &r)): the last product is the right operand.
MultiplyRight(x) ==
    /\ Alive
    /\ op = "multiply" /\ expr = <<"b", "c">>
    /\ retM' = multiply(Reg(x), retM)
    /\ Called("multiply", <<x, "(", expr[1], expr[2], ")">>, <<>>, "ok")
    /\ retT' = Vec3_zeros /\ retS' = Zero /\ divs' = 0
    /\ UNCHANGED <<matrices, tuples, writes>>

\* l * r
MatMul(l, r) ==
    /\ Alive
    /\ retM' = Matrix4_mul(Reg(l), Reg(r))
    /\ Called("Matrix4::mul", <<l, r>>, <<>>, "ok")
    /\ retT' = Vec3_zeros /\ retS' = Zero /\ divs' = 0
    /\ UNCHANGED <<matrices, tuples, writes>>

\* a.transpose()
Transpose ==
    /\ Alive
    /\ nT < MaxTranspose
    /\ a' = transpose(a)
    /\ nT' = nT + 1
    /\ Called("transpose", <<"a">>, <<>>, "ok")
    /\ retM' = Matrix4_zeros /\ retT' = Vec3_zeros /\ retS' = Zero /\ divs' = 0
    /\ UNCHANGED <<b, c, a0, tuples, writes>>

\* a.transposed()
Transposed ==
    /\ Alive
    /\ retM' = transposed(a)
    /\ Called("transposed", <<"a">>, <<>>, "ok")
    /\ retT' = Vec3_zeros /\ retS' = Zero /\ divs' = 0
    /\ UNCHANGED <<matrices, tuples, writes>>

\* a.transposed().transposed(): transposed() called on the matrix just returned.
TransposedAgain ==
    /\ Alive
    /\ op = "transposed" /\ Len(expr) = 1
    /\ retM' = transposed(retM)
    /\ Called("transposed", <<"a", "transposed">>, <<>>, "ok")
    /\ retT' = Vec3_zeros /\ retS' = Zero /\ divs' = 0
    /\ UNCHANGED <<matrices, tuples, writes>>

\* a.inverse()
Inverse ==
    LET r == inverse(a)
    IN  /\ Alive
        /\ a' = IF r.outcome = "ok" THEN r.val ELSE a
        /\ Called("inverse", <<"a">>, <<>>, r.outcome)
        /\ retM' = Matrix4_zeros /\ retT' = Vec3_zeros /\ retS' = Zero /\ divs' = 0
        /\ UNCHANGED <<b, c, a0, nT, tuples, writes>>

NextMatrix ==
    \/ \E e \in {<<"a", "b">>, <<"b", "c">>} : Multiply(e[1], e[2])
    \/ MultiplyLeft("c")
    \/ MultiplyRight("a")
    \/ MatMul("a", "b")
    \/ Transpose
    \/ Transposed
    \/ TransposedAgain
    \/ Inverse

SpecMatrix == InitMatrix /\ [][NextMatrix]_vars

(***************************************************************************)
(* The tuples: normalize on Vec3 and Point3, cross and the Vec3 * operator. *)
(***************************************************************************)
\* Components: a negative non-integer, zero, the smallest positive scalar (its
\* square rounds to zero), and an integer.
Comps == {0 - Scale - 1, 0, 1, 2 * Scale}

Vecs == {Vec3_new(x, y, z) : x \in Comps, y \in Comps, z \in Comps}

UVecs == {Vec3_new(x, y, z) : x \in {0, 1}, y \in {0 - Scale - 1, 2 * Scale}, z \in {0, Scale + 2}}

Points ==
    {Point3_zeros, Point3_new(1, 1, 1), Point3_new(F(1), F(2), F(3)),
     Point3_new(0 - Scale - 1, 0, 1)}

InitTuple ==
    /\ v \in Vecs
    /\ u \in UVecs
    /\ p \in Points
    /\ a = Matrix4_zeros
    /\ b = Matrix4_zeros
    /\ c = Matrix4_zeros
    /\ a0 = a
    /\ NoCall

\* v.normalize()
NormalizeVec ==
    LET r == Vec3_normalize(v)
    IN  /\ Alive
        /\ v' = r.self
        /\ divs' = r.divs
        /\ Called("Vec3::normalize", <<"v">>, <<>>, "ok")
        /\ retM' = Matrix4_zeros /\ retT' = Vec3_zeros /\ retS' = Zero
        /\ UNCHANGED <<matrices, u, p, writes>>

\* p.normalize()
NormalizePoint ==
    LET r == Point3_normalize(p)
    IN  /\ Alive
        /\ p' = r.self
        /\ divs' = r.divs
        /\ Called("Point3::normalize", <<"p">>, <<>>, "ok")
        /\ retM' = Matrix4_zeros /\ retT' = Vec3_zeros /\ retS' = Zero
        /\ UNCHANGED <<matrices, v, u, writes>>

\* Vec3::cross(&v, &u)
Cross ==
    /\ Alive
    /\ retT' = cross(v, u)
    /\ Called("cross", <<"v", "u">>, <<>>, "ok")
    /\ retM' = Matrix4_zeros /\ retS' = Zero /\ divs' = 0
    /\ UNCHANGED <<matrices, tuples, writes>>

\* v * u
VecMul ==
    /\ Alive
    /\ retT' = Vec3_mul(v, u)
    /\ Called("Vec3::mul", <<"v", "u">>, <<>>, "ok")
    /\ retM' = Matrix4_zeros /\ retS' = Zero /\ divs' = 0
    /\ UNCHANGED <<matrices, tuples, writes>>

NextTuple ==
    \/ NormalizeVec
    \/ NormalizePoint
    \/ Cross
    \/ VecMul

SpecTuple == InitTuple /\ [][NextTuple]_vars

(***************************************************************************)
(* The transforms: mul_point_matrix and mul_vec_matrix.                     *)
(***************************************************************************)
\* m with its row 3 and its column 3 replaced by those of g.
WithBorder(m, g) ==
    [i \in 0..3 |-> [j \in 0..3 |-> IF i = 3 \/ j = 3 THEN g[i][j] ELSE m[i][j]]]

BaseMats == {Matrix4_zeros, Identity, TestM1} \cup {Gen(s) : s \in 1..NumGen}

TMats == BaseMats \cup {WithBorder(m, Gen(t)) : m \in BaseMats, t \in 1..NumGen}

TVecs ==
    {Vec3_zeros, Vec3_new(F(1), F(2), F(3)), Vec3_new(1, 0 - Scale - 1, 0),
     Vec3_new(0 - 3, 2 * Scale + 1, Scale + 2)}

TPoints ==
    {Point3_zeros, Point3_new(F(1), F(2), F(3)), Point3_new(1, 0 - Scale - 1, 0),
     Point3_new(0 - 3, 2 * Scale + 1, Scale + 2)}

InitTransform ==
    /\ a \in TMats
    /\ b \in TMats
    /\ c = Matrix4_zeros
    /\ a0 = a
    /\ v \in TVecs
    /\ u = Vec3_zeros
    /\ p \in TPoints
    /\ NoCall

\* mul_point_matrix(&p, &m)
MulPointMatrix(m) ==
    LET r == mul_point_matrix(p, Reg(m))
    IN  /\ Alive
        /\ retT' = r.val
        /\ divs' = r.divs
        /\ Called("mul_point_matrix", <<"p", m>>, <<>>, "ok")
        /\ retM' = Matrix4_zeros /\ retS' = Zero
        /\ UNCHANGED <<matrices, tuples, writes>>

\* mul_vec_matrix(&v, &m)
MulVecMatrix(m) ==
    LET r == mul_vec_matrix(v, Reg(m))
    IN  /\ Alive
        /\ retT' = r.val
        /\ divs' = r.divs
        /\ Called("mul_vec_matrix", <<"v", m>>, <<>>, "ok")
        /\ retM' = Matrix4_zeros /\ retS' = Zero
        /\ UNCHANGED <<matrices, tuples, writes>>

NextTransform ==
    \/ \E m \in {"a", "b"} : MulPointMatrix(m)
    \/ \E m \in {"a", "b"} : MulVecMatrix(m)

SpecTransform == InitTransform /\ [][NextTransform]_vars

(***************************************************************************)
(* The indexed accesses: t[i], t[i] = value on Vec3 and Point3, m[i][j] and *)
(* m[i][j] = value on Matrix4.  usize indices are never negative.           *)
(***************************************************************************)
Indices == 0..MaxIndex

\* The values stored.
Stored == {0 - 1, 2 * Scale + 1}

InitIndex ==
    /\ a \in {TestM1, Gen(1)}
    /\ b = Matrix4_zeros
    /\ c = Matrix4_zeros
    /\ a0 = a
    /\ v \in {Vec3_zeros, Vec3_new(F(1), F(2), F(3))}
    /\ u = Vec3_zeros
    /\ p \in {Point3_new(1, 0 - Scale - 1, Scale + 2)}
    /\ NoCall

\* v[i]
VecIndex(i) ==
    LET r == Vec3_index(v, i)
    IN  /\ Alive
        /\ retS' = IF r.outcome = "ok" THEN r.val ELSE Zero
        /\ Called("Vec3::index", <<"v">>, <<i>>, r.outcome)
        /\ retM' = Matrix4_zeros /\ retT' = Vec3_zeros /\ divs' = 0
        /\ UNCHANGED <<matrices, tuples, writes>>

\* v[i] = value
VecIndexMut(i, value) ==
    LET r == Vec3_index_mut(v, i, value)
    IN  /\ Alive
        /\ writes < MaxWrites
        /\ writes' = writes + 1
        /\ v' = IF r.outcome = "ok" THEN r.val ELSE v
        /\ Called("Vec3::index_mut", <<"v">>, <<i, value>>, r.outcome)
        /\ retM' = Matrix4_zeros /\ retT' = Vec3_zeros /\ retS' = Zero /\ divs' = 0
        /\ UNCHANGED <<matrices, u, p>>

\* p[i]
PointIndex(i) ==
    LET r == Point3_index(p, i)
    IN  /\ Alive
        /\ retS' = IF r.outcome = "ok" THEN r.val ELSE Zero
        /\ Called("Point3::index", <<"p">>, <<i>>, r.outcome)
        /\ retM' = Matrix4_zeros /\ retT' = Vec3_zeros /\ divs' = 0
        /\ UNCHANGED <<matrices, tuples, writes>>

\* p[i] = value
PointIndexMut(i, value) ==
    LET r == Point3_index_mut(p, i, value)
    IN  /\ Alive
        /\ writes < MaxWrites
        /\ writes' = writes + 1
        /\ p' = IF r.outcome = "ok" THEN r.val ELSE p
        /\ Called("Point3::index_mut", <<"p">>, <<i, value>>, r.outcome)
        /\ retM' = Matrix4_zeros /\ retT' = Vec3_zeros /\ retS' = Zero /\ divs' = 0
        /\ UNCHANGED <<matrices, v, u>>

\* a[i][j]
MatIndex(i, j) ==
    LET r == Matrix4_get(a, i, j)
    IN  /\ Alive
        /\ retS' = IF r.outcome = "ok" THEN r.val ELSE Zero
        /\ Called("Matrix4::index", <<"a">>, <<i, j>>, r.outcome)
        /\ retM' = Matrix4_zeros /\ retT' = Vec3_zeros /\ divs' = 0
        /\ UNCHANGED <<matrices, tuples, writes>>

\* a[i][j] = value
MatIndexMut(i, j, value) ==
    LET r == Matrix4_set(a, i, j, value)
    IN  /\ Alive
        /\ writes < MaxWrites
        /\ writes' = writes + 1
        /\ a' = IF r.outcome = "ok" THEN r.val ELSE a
        /\ a0' = IF r.outcome = "ok" THEN r.val ELSE a0
        /\ nT' = IF r.outcome = "ok" THEN 0 ELSE nT
        /\ Called("Matrix4::index_mut", <<"a">>, <<i, j, value>>, r.outcome)
        /\ retM' = Matrix4_zeros /\ retT' = Vec3_zeros /\ retS' = Zero /\ divs' = 0
        /\ UNCHANGED <<b, c, tuples>>

NextIndex ==
    \/ \E i \in Indices : VecIndex(i)
    \/ \E i \in Indices, value \in Stored : VecIndexMut(i, value)
    \/ \E i \in Indices : PointIndex(i)
    \/ \E i \in Indices, value \in Stored : PointIndexMut(i, value)
    \/ \E i \in Indices, j \in Indices : MatIndex(i, j)
    \/ \E i \in Indices, j \in Indices, value \in Stored : MatIndexMut(i, j, value)

SpecIndex == InitIndex /\ [][NextIndex]_vars

(***************************************************************************)
(* Helpers of the statements about matrices.                                *)
(***************************************************************************)
Abs(x) == IF x < 0 THEN 0 - x ELSE x

Det2(m, r1, r2, c1, c2) == m[r1][c1] * m[r2][c2] - m[r1][c2] * m[r2][c1]

Det3(m, r, k) ==
    m[r[1]][k[1]] * Det2(m, r[2], r[3], k[2], k[3])
    - m[r[1]][k[2]] * Det2(m, r[2], r[3], k[1], k[3])
    + m[r[1]][k[3]] * Det2(m, r[2], r[3], k[1], k[2])

\* The determinant of m (in units^4), by cofactor expansion along row 0.
Det4(m) ==
    m[0][0] * Det3(m, <<1, 2, 3>>, <<1, 2, 3>>)
    - m[0][1] * Det3(m, <<1, 2, 3>>, <<0, 2, 3>>)
    + m[0][2] * Det3(m, <<1, 2, 3>>, <<0, 1, 3>>)
    - m[0][3] * Det3(m, <<1, 2, 3>>, <<0, 1, 2>>)

Singular(m) == Det4(m) = 0

\* Every entry of x is within tol units of the same entry of y.
Within(x, y, tol) == \A i \in 0..3, j \in 0..3 : Abs(x[i][j] - y[i][j]) <= tol

\* Every entry of m is an integer: products of such entries are exact.
Integral(m) == \A i \in 0..3, j \in 0..3 : m[i][j] % Scale = 0

MaxAbs(m) ==
    CHOOSE x \in {Abs(m[i][j]) : i \in 0..3, j \in 0..3} :
        \A i \in 0..3, j \in 0..3 : Abs(m[i][j]) <= x

(***************************************************************************)
(* C1.  inverse() on a singular matrix (all zeros, two identical rows)      *)
(* reports a distinct non-invertible condition: it neither stores a result  *)
(* matrix in the receiver nor panics.  The statement as claimed; inverse is *)
(* todo!() and panics on every receiver.                                    *)
(***************************************************************************)
C1_InverseReportsSingular ==
    [][(op' = "inverse" /\ Singular(a)) => (outcome' = "singular" /\ a' = a)]_vars

(***************************************************************************)
(* C2.  For every invertible matrix M, inverse() completes and leaves Minv  *)
(* in the receiver with multiply(M, Minv) equal to the identity within one  *)
(* unit of rounding.  The statement as claimed; inverse panics instead.     *)
(***************************************************************************)
C2_InverseTimesSelfIsIdentity ==
    [][(op' = "inverse" /\ ~Singular(a))
        => (outcome' = "ok" /\ Within(multiply(a, a'), Identity, 1))]_vars

(***************************************************************************)
(* C3.  multiply(lhs, rhs)[i][j] is the sum over k in 0..3 of               *)
(* lhs[i][k] * rhs[k][j] for all i, j in 0..3, the * operator returns the   *)
(* same matrix as multiply, and m1 * m2 of tests::multiply_matrieces is the *)
(* product the test expects.                                                *)
(***************************************************************************)
C3_MultiplyRowByColumn ==
    /\ (op \in {"multiply", "Matrix4::mul"} /\ Len(expr) = 2)
        => \A i \in 0..3, j \in 0..3 :
              retM[i][j] = SumK(Reg(expr[1]), Reg(expr[2]), i, j, 3)
    /\ op = "Matrix4::mul" => retM = multiply(Reg(expr[1]), Reg(expr[2]))
    /\ (op \in {"multiply", "Matrix4::mul"} /\ expr = <<"a", "b">>
            /\ a = TestM1 /\ b = TestM2)
        => retM = TestProduct

C3_Witness ==
    /\ op = "Matrix4::mul" /\ expr = <<"a", "b">>
    /\ a = TestM1 /\ b = TestM2
    /\ retM = TestProduct
    /\ retM # multiply(b, a)

(***************************************************************************)
(* C4.  Applying transpose twice yields the original matrix in all 16       *)
(* entries, exactly: after an even number of in-place transpose() calls the *)
(* receiver is the matrix as constructed, and a.transposed().transposed()   *)
(* is a.                                                                    *)
(***************************************************************************)
C4_TransposeTwice ==
    /\ nT % 2 = 0 => \A i \in 0..3, j \in 0..3 : a[i][j] = a0[i][j]
    /\ (op = "transposed" /\ expr = <<"a", "transposed">>)
        => \A i \in 0..3, j \in 0..3 : retM[i][j] = a[i][j]

C4_Witness ==
    /\ nT = 2
    /\ op = "transposed" /\ expr = <<"a", "transposed">>
    /\ \E i \in 0..3, j \in 0..3 : a[i][j] # a[j][i]
    /\ retM = a0

(***************************************************************************)
(* C9.  multiply(multiply(A, B), C) equals multiply(A, multiply(B, C)):     *)
(* exactly when the entries of A, B and C are integers (every product is    *)
(* exact), and otherwise within the rounding the products accumulate, at    *)
(* most AssocTol units in each entry.                                       *)
(***************************************************************************)
\* Each product rounds by at most 1/2 unit: an entry of a product is off by at
\* most 2 units, and an entry of the second product by 4 * (2 * |x| + 1/2) units
\* for x the largest entry of the other operand, on each side of the equation.
AssocTol == (8 * (MaxAbs(a) + MaxAbs(c))) \div Scale + 5

AssocHolds(x, y) ==
    /\ (Integral(a) /\ Integral(b) /\ Integral(c)) => x = y
    /\ Within(x, y, AssocTol)

C9_MultiplyAssociative ==
    /\ (op = "multiply" /\ expr = <<"(", "a", "b", ")", "c">>)
        => AssocHolds(retM, multiply(a, multiply(b, c)))
    /\ (op = "multiply" /\ expr = <<"a", "(", "b", "c", ")">>)
        => AssocHolds(multiply(multiply(a, b), c), retM)

C9_Witness ==
    /\ op = "multiply" /\ expr = <<"(", "a", "b", ")", "c">>
    /\ a = TestM1 /\ b = TestM2 /\ c = TwoRows
    /\ retM = multiply(a, multiply(b, c))
    /\ multiply(a, b) # multiply(b, a)

(***************************************************************************)
(* Helpers of the statements about tuples and transforms.                   *)
(***************************************************************************)
\* The componentwise negation of w.
Neg(w) == [x |-> 0 - w.x, y |-> 0 - w.y, z |-> 0 - w.z]

\* m and n agree on the upper-left 3x3 block.
AgreeUpper(m, n) == \A i \in 0..2, j \in 0..2 : m[i][j] = n[i][j]

\* The component of a tuple that index i names.
Component(t, i) == CASE i = 0 -> t.x [] i = 1 -> t.y [] OTHER -> t.z

(***************************************************************************)
(* C5.  With I the identity matrix, mul_point_matrix(p, I) is p and         *)
(* mul_vec_matrix(v, I) is v, component for component.                      *)
(***************************************************************************)
C5_IdentityTransform ==
    /\ (op = "mul_point_matrix" /\ Reg(expr[2]) = Identity)
        => (retT.x = p.x /\ retT.y = p.y /\ retT.z = p.z)
    /\ (op = "mul_vec_matrix" /\ Reg(expr[2]) = Identity)
        => (retT.x = v.x /\ retT.y = v.y /\ retT.z = v.z)

C5_Witness ==
    /\ op = "mul_point_matrix" /\ expr = <<"p", "a">>
    /\ a = Identity
    /\ p = Point3_new(0 - 3, 2 * Scale + 1, Scale + 2)
    /\ retT = p

(***************************************************************************)
(* C6.  normalize() on a Vec3 or Point3 whose length (magnitude,            *)
(* distance_from_origin) is exactly 0 performs no division, does not panic  *)
(* and leaves x, y and z unchanged; a zero tuple is still the zero tuple    *)
(* afterwards.                                                              *)
(***************************************************************************)
C6_NormalizeZeroLength ==
    [][/\ (op' = "Vec3::normalize" /\ magnitude(v) = Zero)
          => (divs' = 0 /\ outcome' = "ok" /\ v' = v)
       /\ (op' = "Vec3::normalize" /\ v = Vec3_zeros)
          => (divs' = 0 /\ outcome' = "ok" /\ v' = Vec3_zeros)
       /\ (op' = "Point3::normalize" /\ distance_from_origin(p) = Zero)
          => (divs' = 0 /\ outcome' = "ok" /\ p' = p)
       /\ (op' = "Point3::normalize" /\ p = Point3_zeros)
          => (divs' = 0 /\ outcome' = "ok" /\ p' = Point3_zeros)]_vars

C6_Witness ==
    /\ op = "Vec3::normalize"
    /\ outcome = "ok"
    /\ divs = 0
    /\ v = Vec3_zeros
    /\ p = Point3_zeros

(***************************************************************************)
(* C7.  An indexed read or write on a Vec3 or Point3 with index 0, 1, 2     *)
(* accesses x, y, z (a write changes only that component); any other index, *)
(* and any Matrix4 row or column index outside 0..3, panics: it is never    *)
(* clamped or wrapped to a valid component, and the value is left as it     *)
(* was.                                                                     *)
(***************************************************************************)
C7_IndexedAccess ==
    [][/\ op' = "Vec3::index" =>
            /\ v' = v
            /\ IF args'[1] \in 0..2
               THEN outcome' = "ok" /\ retS' = Component(v, args'[1])
               ELSE outcome' = "panic"
       /\ op' = "Point3::index" =>
            /\ p' = p
            /\ IF args'[1] \in 0..2
               THEN outcome' = "ok" /\ retS' = Component(p, args'[1])
               ELSE outcome' = "panic"
       /\ op' = "Vec3::index_mut" =>
            IF args'[1] \in 0..2
            THEN /\ outcome' = "ok"
                 /\ \A i \in 0..2 : Component(v', i) =
                        IF i = args'[1] THEN args'[2] ELSE Component(v, i)
            ELSE outcome' = "panic" /\ v' = v
       /\ op' = "Point3::index_mut" =>
            IF args'[1] \in 0..2
            THEN /\ outcome' = "ok"
                 /\ \A i \in 0..2 : Component(p', i) =
                        IF i = args'[1] THEN args'[2] ELSE Component(p, i)
            ELSE outcome' = "panic" /\ p' = p
       /\ op' = "Matrix4::index" =>
            /\ a' = a
            /\ IF args'[1] \in 0..3 /\ args'[2] \in 0..3
               THEN outcome' = "ok" /\ retS' = a[args'[1]][args'[2]]
               ELSE outcome' = "panic"
       /\ op' = "Matrix4::index_mut" =>
            IF args'[1] \in 0..3 /\ args'[2] \in 0..3
            THEN /\ outcome' = "ok"
                 /\ \A i \in 0..3, j \in 0..3 : a'[i][j] =
                        IF i = args'[1] /\ j = args'[2] THEN args'[3] ELSE a[i][j]
            ELSE outcome' = "panic" /\ a' = a]_vars

C7_Witness ==
    /\ op = "Vec3::index_mut"
    /\ args = <<3, 2 * Scale + 1>>
    /\ outcome = "panic"
    /\ v = Vec3_new(F(1), F(2), F(3))

(***************************************************************************)
(* C8.  cross(a, b) is the componentwise negation of cross(b, a), and the   *)
(* Vec3 * operator returns the same vector as cross(a, b).                  *)
(***************************************************************************)
C8_CrossAntiCommutative ==
    /\ op \in {"cross", "Vec3::mul"} => retT = Neg(cross(u, v))
    /\ op = "Vec3::mul" => retT = cross(v, u)

C8_Witness ==
    /\ op = "Vec3::mul"
    /\ retT.x # 0 /\ retT.y # 0 /\ retT.z # 0
    /\ retT = Neg(cross(u, v))

(***************************************************************************)
(* C10.  mul_vec_matrix(v, m) depends only on v and the upper-left 3x3      *)
(* block of m: two matrices that agree there and differ in row 3 or column  *)
(* 3 give the same vector, and no division is performed.                    *)
(* mul_point_matrix adds row 3 and divides x', y', z' by                    *)
(* w' = p.x*m[0][3] + p.y*m[1][3] + p.z*m[2][3] + m[3][3].                  *)
(***************************************************************************)
C10_VecIgnoresBorder ==
    /\ (op = "mul_vec_matrix" /\ AgreeUpper(a, b))
        => (retT = mul_vec_matrix(v, a).val /\ retT = mul_vec_matrix(v, b).val)
    /\ op = "mul_vec_matrix" => divs = 0
    /\ op = "mul_point_matrix" =>
        LET m == Reg(expr[2])
            w == SMul(p.x, m[0][3]) + SMul(p.y, m[1][3]) + SMul(p.z, m[2][3]) + m[3][3]
            lin == mul_vec_matrix(p, m).val
        IN  /\ divs = 3
            /\ retT.x = SDiv(lin.x + m[3][0], w)
            /\ retT.y = SDiv(lin.y + m[3][1], w)
            /\ retT.z = SDiv(lin.z + m[3][2], w)

C10_Witness ==
    /\ op = "mul_vec_matrix" /\ expr = <<"v", "a">>
    /\ AgreeUpper(a, b)
    /\ \E j \in 0..3 : a[3][j] # b[3][j]
    /\ \E i \in 0..3 : a[i][3] # b[i][3]
    /\ retT # Vec3_zeros
    /\ retT = mul_vec_matrix(v, b).val

(***************************************************************************)
(* C11: transposed() returns a matrix T with T[i][j] = M[j][i] for all     *)
(* i, j in 0..3 and leaves its receiver M unchanged (whether the receiver   *)
(* is the stored matrix or a returned one); transpose() replaces its        *)
(* receiver with exactly that T and touches no other matrix; multiply and   *)
(* the * operator leave both operands, and every stored matrix, unchanged.  *)
(* On m1 of tests::transpose_test, transpose() yields the matrix the test   *)
(* expects and transposed() of that yields m1 again.                        *)
(***************************************************************************)
C11_TransposeFrame ==
    [][/\ (op' = "transposed" /\ expr' = <<"a">>)
            => /\ \A i \in 0..3, j \in 0..3 : retM'[i][j] = a[j][i]
               /\ UNCHANGED <<a, b, c>>
               /\ (a = TestM1Transposed => retM' = TestM1)
       /\ (op' = "transposed" /\ expr' = <<"a", "transposed">>)
            => /\ \A i \in 0..3, j \in 0..3 : retM'[i][j] = retM[j][i]
               /\ UNCHANGED <<a, b, c>>
       /\ (op' = "transpose")
            => /\ \A i \in 0..3, j \in 0..3 : a'[i][j] = a[j][i]
               /\ a' = transposed(a)
               /\ UNCHANGED <<b, c>>
               /\ (a = TestM1 => a' = TestM1Transposed)
       /\ (op' \in {"multiply", "Matrix4::mul"})
            => UNCHANGED <<a, b, c>>]_vars

C11_Witness ==
    /\ op = "transpose" /\ outcome = "ok"
    /\ nT = 1 /\ a0 = TestM1 /\ a = TestM1Transposed
    /\ a # a0
    /\ b = TestM2 /\ c = TwoRows

====
